---- MODULE Spec2Model ----
(***************************************************************************)
(* A model of scripts/gridsearch.py: the parameter expander param_list and *)
(* the search-and-evaluate loop gridsearch.                                *)
(*                                                                         *)
(* A mapping (a Python dict, which keeps insertion order) is a sequence of *)
(* items <<key, values>> with pairwise different keys.  A hyperparameter   *)
(* space is a record [shape, grids]: shape "dict" is a bare mapping (grids *)
(* holds exactly that mapping), shape "list" is a sequence of sub-grid     *)
(* mappings.  An assignment is a function from parameter names to values.  *)
(***************************************************************************)
EXTENDS Integers, Sequences, FiniteSets, TLC

\* ---------------------------------------------------------------- bounds

\* Longest value sequence of a key.
MaxVals == 3

\* Most sub-grids in a sequence-shaped space given to param_list alone.
MaxGrids == 2

\* Most trials of one gridsearch call.
MaxTrials == 3

\* ------------------------------------------------------------- constants

\* Default of gridsearch's random_state argument.
random_state == 1618

\* Default of gridsearch's n_jobs argument.
n_jobs == 1

\* The initial running best of gridsearch.
InitialBestMcc == -1

\* The value of an unguarded 0/0 in the MCC formula; it lies outside [-1, 1]
\* and is only ever compared through Gt and IsNaN.
NaN == 2

\* Python's None for an optional destination argument.
None == "None"

\* ------------------------------------------------------------ param_list

\* The values 1..n in declared order.
Candidates(n) == [j \in 1..n |-> j]

\* zip(*cp.items()): the tuple of keys and the tuple of value sequences.
ItemKeys(cp) == [j \in 1..Len(cp) |-> cp[j][1]]

ItemValues(cp) == [j \in 1..Len(cp) |-> cp[j][2]]

\* One round of itertools.product: [x + [y] for x in result for y in pool].
ProductStep(result, pool) ==
    [n \in 1..(Len(result) * Len(pool)) |->
        Append(result[((n - 1) \div Len(pool)) + 1], pool[((n - 1) % Len(pool)) + 1])]

RECURSIVE ProductFrom(_, _)
ProductFrom(result, pools) ==
    IF pools = <<>> THEN result
    ELSE ProductFrom(ProductStep(result, Head(pools)), Tail(pools))

\* A plausible slip: the left-most pool varies fastest.
ProductLeftFastest(pools) ==
    LET RECURSIVE Go(_, _)
        Go(result, ps) ==
            IF ps = <<>> THEN result
            ELSE Go([n \in 1..(Len(result) * Len(Head(ps))) |->
                        Append(result[((n - 1) % Len(result)) + 1],
                               Head(ps)[((n - 1) \div Len(result)) + 1])],
                    Tail(ps))
    IN Go(<< <<>> >>, pools)

\* itertools.product(*values): result = [[]], then one round per pool.
Product(pools) == ProductFrom(<< <<>> >>, pools)

\* dict(zip(keys, v)).
DictZip(keys, v) ==
    [k \in {keys[j] : j \in 1..Len(keys)} |->
        v[CHOOSE j \in 1..Len(keys) : keys[j] = k /\ \A l \in (j + 1)..Len(keys) : keys[l] # k]]

\* [dict(zip(keys, v)) for v in it.product(*values)] for one mapping.
ExpandMapping(cp) ==
    LET prod == Product(ItemValues(cp))
    IN [n \in 1..Len(prod) |-> DictZip(ItemKeys(cp), prod[n])]

\* The loop over the sub-grids: keys, values = zip(*cp.items()) cannot unpack
\* the empty zip of an empty mapping and raises ValueError.
RECURSIVE ExpandGrids(_, _)
ExpandGrids(grids, acc) ==
    IF grids = <<>> THEN [err |-> "none", list |-> acc]
    ELSE IF Head(grids) = <<>> THEN [err |-> "ValueError", list |-> <<>>]
    ELSE ExpandGrids(Tail(grids), acc \o ExpandMapping(Head(grids)))

\* param_list(candidate_params): both branches run the same two lines, once
\* for a dict and once per element otherwise.
param_list(candidate_params) ==
    IF candidate_params.shape = "dict"
    THEN ExpandGrids(<<candidate_params.grids[1]>>, <<>>)
    ELSE ExpandGrids(candidate_params.grids, <<>>)

\* ------------------------------------------------------------ gridsearch

\* model.lower(), on the names the model draws the family from.
Lower(name) == IF name = "KNN" THEN "knn" ELSE name

\* The keys of model_dict.
model_dict ==
    {"svc", "lda", "qda", "logisticregression", "randomforest",
     "gradientboosting", "adaboost", "knn"}

stochastic ==
    {"svc", "logisticregression", "gradientboosting", "adaboost",
     "randomforest", "xgboost"}

isstochastic(m) == m \in stochastic

\* The training labels: how many are 0 and how many are 1.
Y_train == [neg |-> 8, pos |-> 2]

\* ci = np.sum(Y_train == 0) / np.sum(Y_train == 1), on labels whose ratio
\* and its square root are whole numbers.
ClassImbalance == Y_train.neg \div Y_train.pos

Sqrt(x) == CHOOSE r \in 0..x : r * r = x

\* d[key] = value on a dict: a present key keeps its place, a new one is last.
SetItem(cp, key, value) ==
    IF \E j \in 1..Len(cp) : cp[j][1] = key
    THEN [j \in 1..Len(cp) |-> IF cp[j][1] = key THEN <<key, value>> ELSE cp[j]]
    ELSE Append(cp, <<key, value>>)

\* p[key] = value on an assignment.
SetKey(p, key, value) ==
    [k \in (DOMAIN p) \cup {key} |-> IF k = key THEN value ELSE p[k]]

\* The xgboost branch before the expansion: params['scale_pos_weight'] = ...
\* is an item assignment, which a list of sub-grids refuses with TypeError.
Augment(m, space) ==
    IF m # "xgboost" THEN [err |-> "none", space |-> space]
    ELSE IF space.shape = "list" THEN [err |-> "TypeError", space |-> space]
    ELSE [err |-> "none",
          space |-> [shape |-> "dict",
                     grids |-> <<SetItem(space.grids[1], "scale_pos_weight",
                                         <<ClassImbalance, Sqrt(ClassImbalance), 1>>)>>]]

\* Lines 73-81: the augmentation, then params = param_list(params).
Expand(m, space) ==
    LET a == Augment(m, space)
    IN IF a.err # "none" THEN [err |-> a.err, list |-> <<>>] ELSE param_list(a.space)

\* A plausible slip: xgboost seeded under random_state like the others.
SeedKeyAlwaysRandomState(m) == "random_state"

\* The key the seed is injected under.
SeedKey(m) == IF m = "xgboost" THEN "seed" ELSE "random_state"

\* The assignments into p at the head of the loop body, before the fit.
InjectSeed(m, p) == IF isstochastic(m) THEN SetKey(p, SeedKey(m), random_state) ELSE p

InjectJobs(m, p) ==
    IF m \in {"logisticregression", "knn", "randomforest"}
    THEN SetKey(p, "n_jobs", n_jobs) ELSE p

InjectXgb(m, p) ==
    IF m = "xgboost"
    THEN SetKey(SetKey(p, "nthread", n_jobs), "objective", "binary:logistic")
    ELSE p

Inject(m, p) == InjectXgb(m, InjectJobs(m, InjectSeed(m, p)))

\* A validation MCC: a value of [-1, 1] (here its ends and its middle) or the
\* NaN of an unguarded zero division.
MccValues == {-1, 0, 1, NaN}

IsNaN(v) == v = NaN

\* Python's > on floats: false whenever a side is NaN.
Gt(a, b) == ~IsNaN(a) /\ ~IsNaN(b) /\ a > b

\* A plausible slip: >= in place of >.
ImprovesOrTies(v_mcc, best) == ~IsNaN(v_mcc) /\ ~IsNaN(best) /\ v_mcc >= best

\* if v_mcc > best_mcc
Improves(v_mcc, best) == Gt(v_mcc, best)

\* results.sort_values('validation_mcc', ascending=False).  pandas sorts with
\* kind='quicksort' unless told otherwise, which is not a stable sort: the
\* rows come out in descending order, NaN rows last in their original order,
\* and rows of equal validation_mcc in an order the call does not fix.
Descending(rows, f) ==
    \A a, b \in 1..Len(rows) :
        a < b =>
            LET x == rows[f[a]].validation_mcc
                y == rows[f[b]].validation_mcc
            IN IF IsNaN(x) THEN IsNaN(y) /\ f[a] < f[b] ELSE IsNaN(y) \/ x >= y

sort_values(rows) ==
    LET n == Len(rows)
        perms == {f \in [1..n -> 1..n] : \A a, b \in 1..n : a # b => f[a] # f[b]}
    IN {[j \in 1..n |-> rows[f[j]]] : f \in {g \in perms : Descending(rows, g)}}

\* if resultspath:
Truthy(path) == path \notin {None, ""}

\* Writing a file replaces what the path held.
Write(fs, path, content) ==
    {f \in fs : f.path # path} \cup {[path |-> path, content |-> content]}

\* A plausible slip: the fallback leaves no placeholder at the requested path.
PickleFallbackNoMarker(fs, path, t) ==
    Write(fs, path \o ".pkl", [kind |-> "pickle", trial |-> t])

\* The except AttributeError branch: pickle at <modelpath>.pkl, then the
\* dummy json at modelpath.
PickleFallback(fs, path, t) ==
    Write(Write(fs, path \o ".pkl", [kind |-> "pickle", trial |-> t]),
          path, [kind |-> "placeholder", trial |-> 0])

\* ------------------------------------------------------------------ state

VARIABLES
    model,        \* the model-family name as given
    params,       \* the hyperparameter space as given
    modelpath,    \* destination of the best model, or None
    resultspath,  \* destination of the result table, or None
    pc,           \* position in gridsearch (or in the param_list call)
    plist,        \* params after params = param_list(params)
    results,      \* the rows appended so far; the sorted table after the loop
    best_mcc,     \* the running best validation MCC
    best_model,   \* <<>> while unassigned, else <<t>>: the copy of trial t's model
    constructed,  \* number of models constructed so far
    printed,      \* <<>> or <<row>>: the row printed as the best model's
    json_outcome, \* how sklearn_json.to_json ended, once tried
    files,        \* the files written: a set of [path, content]
    err           \* the exception that ended the call, or "none"

vars == <<model, params, modelpath, resultspath, pc, plist, results, best_mcc,
          best_model, constructed, printed, json_outcome, files, err>>

\* ------------------------------------------------------ param_list alone

ParamNames == {"k1", "k2"}

\* Every order of every subset of the keys.
KeyOrders ==
    {<<>>} \cup {<<k>> : k \in ParamNames}
           \cup {<<x[1], x[2]>> : x \in {y \in ParamNames \X ParamNames : y[1] # y[2]}}

\* The mappings over ParamNames, every key with 0..MaxVals candidate values.
Mappings ==
    UNION {{[j \in 1..Len(ko) |-> <<ko[j], Candidates(c[j])>>] :
                c \in [1..Len(ko) -> 0..MaxVals]} : ko \in KeyOrders}

DictSpace(m) == [shape |-> "dict", grids |-> <<m>>]

ListSpace(g) == [shape |-> "list", grids |-> g]

PLSpaces ==
    {DictSpace(m) : m \in Mappings}
        \cup {ListSpace(g) : g \in UNION {[1..n -> Mappings] : n \in 0..MaxGrids}}

Idle ==
    /\ model = "knn" /\ modelpath = None /\ resultspath = None
    /\ results = <<>> /\ best_mcc = InitialBestMcc /\ best_model = <<>>
    /\ constructed = 0 /\ printed = <<>> /\ json_outcome = "not_tried"
    /\ files = {}

InitPL ==
    /\ params \in PLSpaces
    /\ pc = "param_list"
    /\ plist = <<>>
    /\ err = "none"
    /\ Idle

\* A call of param_list on the space: it returns the list or raises.
ParamListCall ==
    /\ pc = "param_list"
    /\ LET r == param_list(params)
       IN /\ plist' = r.list
          /\ err' = r.err
          /\ pc' = IF r.err = "none" THEN "param_list_returned" ELSE "param_list_raised"
    /\ UNCHANGED <<model, params, modelpath, resultspath, results, best_mcc,
                   best_model, constructed, printed, json_outcome, files>>

NextPL == ParamListCall

SpecPL == InitPL /\ [][NextPL]_vars

\* ------------------------------------------------------------ the search

FamilyNames == model_dict \cup {"xgboost", "KNN", "perceptron"}

Grid1(n) == << <<"k1", Candidates(n)>> >>

Grid2(n, m) == << <<"k1", Candidates(n)>>, <<"k2", Candidates(m)>> >>

\* The spaces a search is given: a bare mapping of no, one or two keys, and
\* sequences of no, one or two sub-grids, the second with a key of its own
\* (as the svc space has).
GridSpaces ==
    {DictSpace(<<>>), ListSpace(<<>>), ListSpace(<< <<>> >>)}
        \cup {DictSpace(Grid1(n)) : n \in 0..MaxTrials}
        \cup {DictSpace(Grid2(x[1], x[2])) : x \in (1..MaxVals) \X (1..MaxVals)}
        \cup {ListSpace(<<Grid1(x[1]), Grid2(1, x[2])>>) : x \in (0..MaxTrials) \X (0..MaxVals)}

Init ==
    /\ model \in FamilyNames
    /\ params \in {s \in GridSpaces : Len(Expand(Lower(model), s).list) <= MaxTrials}
    /\ modelpath \in {None, "model.json"}
    /\ resultspath \in {None, "results.tsv"}
    /\ pc = "start"
    /\ plist = <<>>
    /\ results = <<>>
    /\ best_mcc = InitialBestMcc
    /\ best_model = <<>>
    /\ constructed = 0
    /\ printed = <<>>
    /\ json_outcome = "not_tried"
    /\ files = {}
    /\ err = "none"

Raise(e) == pc' = "raised" /\ err' = e

\* Lines 55-81: up to and including params = param_list(params).
Setup ==
    /\ pc = "start"
    /\ LET r == Expand(Lower(model), params)
       IN /\ plist' = r.list
          /\ err' = r.err
          /\ pc' = IF r.err = "none" THEN "loop" ELSE "raised"
    /\ UNCHANGED <<model, params, modelpath, resultspath, results, best_mcc,
                   best_model, constructed, printed, json_outcome, files>>

\* Lines 83-130: one pass of the loop body, on the next assignment.
Trial ==
    /\ pc = "loop"
    /\ Len(results) < Len(plist)
    /\ LET m == Lower(model)
           t == Len(results) + 1
           p == Inject(m, plist[t])
       IN \/ /\ m # "xgboost"
             /\ m \notin model_dict
             /\ Raise("KeyError")
             /\ UNCHANGED <<results, best_mcc, best_model, constructed>>
          \/ /\ m = "xgboost" \/ m \in model_dict
             /\ constructed' = constructed + 1
             /\ \/ /\ Raise("FitError")
                   /\ UNCHANGED <<results, best_mcc, best_model>>
                \/ \E v_mcc \in MccValues :
                      /\ IF Improves(v_mcc, best_mcc)
                         THEN best_model' = <<t>> /\ best_mcc' = v_mcc
                         ELSE UNCHANGED <<best_model, best_mcc>>
                      /\ results' = Append(results,
                            [index |-> t, params |-> p, validation_mcc |-> v_mcc])
                      /\ UNCHANGED <<pc, err>>
    /\ UNCHANGED <<model, params, modelpath, resultspath, plist, printed,
                   json_outcome, files>>

\* Lines 132-147: the table, its sort, and the summary of results.iloc[0],
\* which an empty table refuses with IndexError.
Summarize ==
    /\ pc = "loop"
    /\ Len(results) = Len(plist)
    /\ \/ /\ results = <<>>
          /\ Raise("IndexError")
          /\ UNCHANGED <<results, printed>>
       \/ /\ results # <<>>
          /\ \E sorted \in sort_values(results) :
                /\ results' = sorted
                /\ printed' = <<sorted[1]>>
          /\ pc' = "persist"
          /\ UNCHANGED err
    /\ UNCHANGED <<model, params, modelpath, resultspath, plist, best_mcc,
                   best_model, constructed, json_outcome, files>>

\* Lines 149-160: the model is persisted when modelpath is given.  Reading
\* best_model while it is unassigned raises UnboundLocalError.
PersistModel ==
    /\ pc = "persist"
    /\ \/ /\ modelpath = None
          /\ pc' = "write_results"
          /\ UNCHANGED <<files, json_outcome, err>>
       \/ /\ modelpath # None
          /\ best_model = <<>>
          /\ Raise("UnboundLocalError")
          /\ UNCHANGED <<files, json_outcome>>
       \/ /\ modelpath # None
          /\ best_model # <<>>
          /\ Lower(model) = "xgboost"
          /\ files' = Write(files, modelpath, [kind |-> "xgboost", trial |-> best_model[1]])
          /\ pc' = "write_results"
          /\ UNCHANGED <<json_outcome, err>>
       \/ /\ modelpath # None
          /\ best_model # <<>>
          /\ Lower(model) # "xgboost"
          /\ \/ /\ json_outcome' = "ok"
                /\ files' = Write(files, modelpath, [kind |-> "json", trial |-> best_model[1]])
                /\ pc' = "write_results"
                /\ UNCHANGED err
             \/ /\ json_outcome' = "AttributeError"
                /\ files' = PickleFallback(files, modelpath, best_model[1])
                /\ pc' = "write_results"
                /\ UNCHANGED err
             \/ /\ json_outcome' = "OtherError"
                /\ Raise("SerializationError")
                /\ UNCHANGED files
    /\ UNCHANGED <<model, params, modelpath, resultspath, plist, results, best_mcc,
                   best_model, constructed, printed>>

\* Lines 162-165: the table is written when resultspath is given, then
\* return results, best_model.
Finish ==
    /\ pc = "write_results"
    /\ files' = IF Truthy(resultspath)
                THEN Write(files, resultspath, [kind |-> "tsv", trial |-> 0])
                ELSE files
    /\ \/ /\ best_model = <<>>
          /\ Raise("UnboundLocalError")
       \/ /\ best_model # <<>>
          /\ pc' = "returned"
          /\ UNCHANGED err
    /\ UNCHANGED <<model, params, modelpath, resultspath, plist, results, best_mcc,
                   best_model, constructed, printed, json_outcome>>

Next == Setup \/ Trial \/ Summarize \/ PersistModel \/ Finish

Spec == Init /\ [][Next]_vars

\* ----------------------------------------------------- claims: param_list

\* A space whose mappings are all non-empty, every key with a value.
ValidSpace(space) ==
    \A g \in 1..Len(space.grids) :
        /\ space.grids[g] # <<>>
        /\ \A j \in 1..Len(space.grids[g]) : Len(space.grids[g][j][2]) > 0

\* The reference expansion of one mapping, as nested loops: the first key is
\* the outermost loop, the last key the innermost.
RECURSIVE ForEachValue(_, _, _)
ForEachValue(key, vals, inner) ==
    IF vals = <<>> THEN <<>>
    ELSE [n \in 1..Len(inner) |-> SetKey(inner[n], key, Head(vals))]
            \o ForEachValue(key, Tail(vals), inner)

RECURSIVE NestedLoops(_)
NestedLoops(cp) ==
    IF cp = <<>> THEN << [k \in {} |-> 0] >>
    ELSE ForEachValue(Head(cp)[1], Head(cp)[2], NestedLoops(Tail(cp)))

RECURSIVE ConcatAll(_)
ConcatAll(grids) ==
    IF grids = <<>> THEN <<>> ELSE NestedLoops(Head(grids)) \o ConcatAll(Tail(grids))

RECURSIVE CardProduct(_)
CardProduct(cp) ==
    IF cp = <<>> THEN 1 ELSE Len(Head(cp)[2]) * CardProduct(Tail(cp))

RECURSIVE SumOfProducts(_)
SumOfProducts(grids) ==
    IF grids = <<>> THEN 0 ELSE CardProduct(Head(grids)) + SumOfProducts(Tail(grids))

\* The slice of the returned list that sub-grid g accounts for.
Offset(grids, g) == SumOfProducts(SubSeq(grids, 1, g - 1))

\* C3: on a space of non-empty mappings with non-empty value sequences,
\* param_list returns exactly the nested-loop expansion of each mapping (keys
\* in declared order, the right-most key varying fastest), the sub-grids'
\* expansions one after the other: as many assignments as the sum of the
\* products of the cardinalities, each with exactly the keys of its own
\* sub-grid.
C3_ExpansionIsNestedLoopProduct ==
    (pc # "param_list" /\ ValidSpace(params)) =>
        /\ pc = "param_list_returned"
        /\ plist = ConcatAll(params.grids)
        /\ Len(plist) = SumOfProducts(params.grids)
        /\ \A g \in 1..Len(params.grids) :
              \A n \in 1..CardProduct(params.grids[g]) :
                 DOMAIN plist[Offset(params.grids, g) + n]
                    = {params.grids[g][j][1] : j \in 1..Len(params.grids[g])}

\* Two sub-grids of different keys and more than one value per key have been
\* expanded, the first of cardinalities (2, 3).
C3_Witness ==
    /\ pc = "param_list_returned"
    /\ params.shape = "list"
    /\ Len(params.grids) = 2
    /\ params.grids[1] = << <<"k1", <<1, 2>> >>, <<"k2", <<1, 2, 3>> >> >>
    /\ params.grids[2] = << <<"k2", <<1, 2>> >> >>
    /\ Len(plist) = 8
    /\ plist[2] = [k1 |-> 1, k2 |-> 2]

\* C4: param_list fails on a space that holds an empty mapping or a key with
\* an empty value sequence: it never returns a list for it.
C4_InvalidSpaceRejected ==
    (pc # "param_list" /\ ~ValidSpace(params)) => pc = "param_list_raised"

\* ----------------------------------------------------- claims: gridsearch

\* The validation MCC of the trial with index t.
MccOf(t) == (CHOOSE r \in {results[j] : j \in 1..Len(results)} : r.index = t).validation_mcc

Trials == {results[j].index : j \in 1..Len(results)}

\* C1: the best model is the model of the earliest trial whose validation
\* MCC is the greatest of the trials run: no trial has a greater one, and no
\* earlier trial an equal one; gridsearch returns with it assigned.
C1_BestIsEarliestMaximalTrial ==
    /\ pc = "returned" => best_model # <<>>
    /\ best_model # <<>> =>
          /\ best_model[1] \in Trials
          /\ ~IsNaN(MccOf(best_model[1]))
          /\ best_mcc = MccOf(best_model[1])
          /\ \A t \in Trials :
                ~IsNaN(MccOf(t)) =>
                    /\ MccOf(t) <= MccOf(best_model[1])
                    /\ MccOf(t) = MccOf(best_model[1]) => t >= best_model[1]

\* gridsearch returned after a lower first trial and two trials tied at the
\* maximum: the earlier of the two is the best.
C1_Witness ==
    /\ pc = "returned"
    /\ Trials = {1, 2, 3}
    /\ MccOf(1) = 0 /\ MccOf(2) = 1 /\ MccOf(3) = 1
    /\ best_model = <<2>>

\* C2: the initial running best is below every validation MCC of [-1, 1], so
\* once a trial with such a value has completed the best model is assigned.
C2_BestAssignedAfterFirstTrial ==
    (results # <<>> /\ \A t \in Trials : ~IsNaN(MccOf(t))) => best_model # <<>>

UnknownFamily == Lower(model) \notin model_dict \cup {"xgboost"}

\* C5: with an unknown model family gridsearch ends with the lookup's error
\* and nothing else, whatever the space expands to (no assignment included),
\* and no model is constructed.
C5_UnknownFamilyFailsAtLookup ==
    (UnknownFamily /\ Expand(Lower(model), params).err = "none") =>
        /\ constructed = 0
        /\ pc \in {"start", "loop", "raised"}
        /\ pc = "raised" => err = "KeyError"

\* C6: the sorted table has one row per expanded assignment, in descending
\* order of validation MCC, rows of equal validation MCC in their order of
\* enumeration.
C6_TableSortedStably ==
    (printed # <<>> /\ \A t \in Trials : ~IsNaN(MccOf(t))) =>
        /\ Len(results) = Len(plist)
        /\ \A a, b \in 1..Len(results) :
              a < b =>
                 \/ results[a].validation_mcc > results[b].validation_mcc
                 \/ /\ results[a].validation_mcc = results[b].validation_mcc
                    /\ results[a].index < results[b].index

Has(p, key) == key \in DOMAIN p

\* C7: every assignment a model was trained with carries the seed under
\* random_state (and not seed) for svc, logisticregression, gradientboosting,
\* adaboost and randomforest, under seed (and not random_state) for xgboost,
\* and under neither key for lda, qda and knn.
C7_SeedInjectedPerFamily ==
    \A j \in 1..Len(results) :
        LET p == results[j].params
            m == Lower(model)
        IN /\ m \in {"svc", "logisticregression", "gradientboosting", "adaboost",
                     "randomforest"} =>
                 Has(p, "random_state") /\ p["random_state"] = random_state /\ ~Has(p, "seed")
           /\ m = "xgboost" =>
                 Has(p, "seed") /\ p["seed"] = random_state /\ ~Has(p, "random_state")
           /\ m \in {"lda", "qda", "knn"} => ~Has(p, "seed") /\ ~Has(p, "random_state")

\* An xgboost search has trained all three of its assignments.
C7_Witness ==
    /\ Lower(model) = "xgboost"
    /\ Len(results) = 3
    /\ \A j \in 1..3 : results[j].params["seed"] = random_state

\* C8: for xgboost and a valid, non-empty space of either shape, the expansion succeeds
\* and holds every base assignment once with each of the three values of
\* scale_pos_weight: three times as many trials as the base expansion.
C8_XgboostSpaceAugmented ==
    (Lower(model) = "xgboost" /\ ValidSpace(params) /\ params.grids # <<>>
        /\ pc # "start") =>
        LET base == param_list(params).list
        IN /\ err \notin {"TypeError", "ValueError"}
           /\ Len(plist) = 3 * Len(base)
           /\ \A n \in 1..Len(base) :
                 \A w \in {ClassImbalance, Sqrt(ClassImbalance), 1} :
                    \E k \in 1..Len(plist) :
                       plist[k] = SetKey(base[n], "scale_pos_weight", w)

ModelKinds == {"json", "pickle", "placeholder", "xgboost"}

\* C9: once the JSON serialization of a non-xgboost best model has failed
\* with AttributeError, the best model is pickled at <modelpath>.pkl, the
\* placeholder is at modelpath, and gridsearch goes on without an error; when
\* it has returned, the result table is written exactly if resultspath was
\* given; no model file exists without modelpath and no table without
\* resultspath.
C9_FallbackThenContinue ==
    /\ json_outcome = "AttributeError" =>
          /\ Lower(model) # "xgboost" /\ modelpath # None
          /\ pc \in {"write_results", "returned"} /\ err = "none"
          /\ [path |-> modelpath \o ".pkl",
              content |-> [kind |-> "pickle", trial |-> best_model[1]]] \in files
          /\ [path |-> modelpath,
              content |-> [kind |-> "placeholder", trial |-> 0]] \in files
    /\ (pc = "returned" /\ resultspath # None) =>
          [path |-> resultspath, content |-> [kind |-> "tsv", trial |-> 0]] \in files
    /\ modelpath = None => \A f \in files : f.content.kind \notin ModelKinds
    /\ resultspath = None => \A f \in files : f.content.kind # "tsv"

\* gridsearch returned after the fallback, with both destinations given.
C9_Witness ==
    /\ pc = "returned"
    /\ json_outcome = "AttributeError"
    /\ resultspath # None
    /\ Cardinality(files) = 3

\* C10: when gridsearch returns, the first row of the sorted table is the
\* row of the trial whose model is returned.
C10_TopRowIsBestModel ==
    pc = "returned" => results[1].index = best_model[1]

====
